---- MODULE Spec2Model ----
(***************************************************************************)
(* Model of app.py (ResumeLens): the skill-set matcher and the three POST  *)
(* request handlers /analyze, /generate-cover-letter and                   *)
(* /analyze-recruiter.  Texts are sequences of character codes, so that    *)
(* split / strip / lower are computed and not assumed.  The percentage is  *)
(* computed as Python computes it: true division of two ints to a binary64 *)
(* float, multiplication by 100 in binary64, truncation by int().          *)
(***************************************************************************)
EXTENDS Integers, Sequences, FiniteSets, TLC

\* ---------------------------------------------------------------- bounds
MaxTokens == 2      \* comma-separated fields in a generated skills text
MaxSkills == 50     \* skills in a generated long skills list
MaxFiles  == 2      \* files uploaded in one /analyze-recruiter request

\* ------------------------------------------------------- character codes
COMMA == 44
SPACE == 32

\* str.isspace for the ASCII range
IsSpace(c) == c \in {9, 10, 11, 12, 13, 28, 29, 30, 31, 32}

\* ------------------------------------------------------------ str methods
RECURSIVE LStrip(_)
LStrip(s) ==
    IF s # << >> /\ IsSpace(Head(s)) THEN LStrip(Tail(s)) ELSE s

RECURSIVE RStrip(_)
RStrip(s) ==
    IF s # << >> /\ IsSpace(s[Len(s)]) THEN RStrip(SubSeq(s, 1, Len(s) - 1)) ELSE s

\* s.strip()
Strip(s) == RStrip(LStrip(s))

\* the text as it is: lower() forgotten
LowerForgotten(s) == s

\* s.lower(), ASCII letters
Lower(s) == [i \in 1..Len(s) |-> IF s[i] \in 65..90 THEN s[i] + 32 ELSE s[i]]

\* s.split(sep): always at least one field, empty fields kept.  The halves
\* of s are split, and the field cut by the middle is put together again.
RECURSIVE Split(_, _)
Split(s, sep) ==
    IF Len(s) = 0 THEN << s >>
    ELSE IF Len(s) = 1 THEN (IF s[1] = sep THEN << << >>, << >> >> ELSE << s >>)
    ELSE LET half  == Len(s) \div 2
             left  == Split(SubSeq(s, 1, half), sep)
             right == Split(SubSeq(s, half + 1, Len(s)), sep)
         IN  SubSeq(left, 1, Len(left) - 1)
             \o << left[Len(left)] \o right[1] >>
             \o SubSeq(right, 2, Len(right))

\* the set without the "if s.strip()" filter: empty tokens are kept
SkillSetKeepingEmpty(text) ==
    LET fields == Split(text, COMMA) IN
    { Lower(Strip(fields[i])) : i \in 1..Len(fields) }

\* {s.strip().lower() for s in text.split(',') if s.strip()}
SkillSet(text) ==
    LET fields == Split(text, COMMA) IN
    { Lower(Strip(fields[i])) : i \in {j \in 1..Len(fields) : Strip(fields[j]) # << >>} }

\* ------------------------------------------------- binary64 arithmetic
\* A float is [hi, mid, lo, exp]: the 53-bit mantissa in limbs of 20, 20 and
\* 13 bits, value (hi * 2^33 + mid * 2^13 + lo) * 2^exp, with hi >= 2^19
\* unless the float is zero.  Every intermediate value stays below 2^31.
\* 2^n, by squaring
RECURSIVE Pow2(_)
Pow2(n) ==
    IF n = 0 THEN 1
    ELSE LET h == Pow2(n \div 2) IN IF n % 2 = 0 THEN h * h ELSE 2 * h * h

HiBits  == 20
MidBits == 20
LoBits  == 13

FloatZero == [hi |-> 0, mid |-> 0, lo |-> 0, exp |-> 0]

\* round-half-to-even of a mantissa; up says the discarded part is above
\* one half, tie that it is exactly one half
RoundNearestEven(hi, mid, lo, exp, up, tie) ==
    IF ~(up \/ (tie /\ lo % 2 = 1))
    THEN [hi |-> hi, mid |-> mid, lo |-> lo, exp |-> exp]
    ELSE IF lo + 1 < Pow2(LoBits)
    THEN [hi |-> hi, mid |-> mid, lo |-> lo + 1, exp |-> exp]
    ELSE IF mid + 1 < Pow2(MidBits)
    THEN [hi |-> hi, mid |-> mid + 1, lo |-> 0, exp |-> exp]
    ELSE IF hi + 1 < Pow2(HiBits)
    THEN [hi |-> hi + 1, mid |-> 0, lo |-> 0, exp |-> exp]
    ELSE [hi |-> Pow2(HiBits - 1), mid |-> 0, lo |-> 0, exp |-> exp + 1]

\* number of doublings of r that reach d (0 < r < d)
RECURSIVE LeadShift(_, _)
LeadShift(r, d) == IF 2 * r >= d THEN 1 ELSE 1 + LeadShift(2 * r, d)

\* number of doublings of d that exceed a
RECURSIVE ScaleShift(_, _)
ScaleShift(a, d) == IF a < d THEN 0 ELSE 1 + ScaleShift(a, 2 * d)

\* a / b for ints 0 <= a, 0 < b, both below 2^10: the correctly rounded
\* quotient, by long division a limb at a time
PyTrueDiv(a, b) ==
    IF a = 0 THEN FloatZero
    ELSE LET s  == ScaleShift(a, b)
             d  == b * Pow2(s)
             e  == LeadShift(a, d)
             \* a < d and a * 2^(e-1) < d <= a * 2^e
             n1 == a * Pow2(e - 1) * Pow2(HiBits)
             n2 == (n1 % d) * Pow2(MidBits)
             n3 == (n2 % d) * Pow2(LoBits)
             r  == n3 % d
         IN  RoundNearestEven(n1 \div d, n2 \div d, n3 \div d,
                              s - (e + HiBits + MidBits + LoBits - 1),
                              2 * r > d, 2 * r = d)

\* number of bits of p above the HiBits of a top limb
RECURSIVE ExtraBits(_)
ExtraBits(p) == IF p < Pow2(HiBits) THEN 0 ELSE 1 + ExtraBits(p \div 2)

\* x * c for a float x and an int c in 1..2^10 (c converts exactly): the
\* exact product limb by limb, then rounded back to 53 bits
PyMul(x, c) ==
    IF x.hi = 0 THEN FloatZero
    ELSE LET t3   == x.lo * c
             t2   == x.mid * c + t3 \div Pow2(LoBits)
             p1   == x.hi * c + t2 \div Pow2(MidBits)
             p2   == t2 % Pow2(MidBits)
             p3   == t3 % Pow2(LoBits)
             drop == ExtraBits(p1)
             D    == Pow2(drop)
             cut  == p3 % D
         IN  RoundNearestEven(p1 \div D,
                              p2 \div D + (p1 % D) * Pow2(MidBits - drop),
                              p3 \div D + (p2 % D) * Pow2(LoBits - drop),
                              x.exp + drop,
                              2 * cut > D, drop > 0 /\ 2 * cut = D)

\* int(x) for a float 0 <= x < 2^31: truncation
PyInt(x) ==
    LET k == 0 - x.exp IN
    IF x.hi = 0 \/ k >= HiBits + MidBits + LoBits THEN 0
    ELSE IF k >= MidBits + LoBits THEN x.hi \div Pow2(k - MidBits - LoBits)
    ELSE x.hi * Pow2(MidBits + LoBits - k) + x.mid \div Pow2(k - LoBits)

\* ------------------------------------------------------ skill set matcher
\* the resume's size over the job's, the intersection forgotten
ScoreOfSizes(resume_skills, job_skills) ==
    IF resume_skills = << >> \/ job_skills = << >> THEN 0
    ELSE LET resume_set == SkillSet(resume_skills)
             job_set    == SkillSet(job_skills)
         IN  IF job_set # {}
             THEN PyInt(PyMul(PyTrueDiv(Cardinality(resume_set), Cardinality(job_set)), 100))
             ELSE 0

\* the share of the resume's skills that the job asks for
ScoreOverResume(resume_skills, job_skills) ==
    IF resume_skills = << >> \/ job_skills = << >> THEN 0
    ELSE LET resume_set == SkillSet(resume_skills)
             job_set    == SkillSet(job_skills)
             matched    == resume_set \cap job_set
         IN  IF resume_set # {}
             THEN PyInt(PyMul(PyTrueDiv(Cardinality(matched), Cardinality(resume_set)), 100))
             ELSE 0

calculate_match_score(resume_skills, job_skills) ==
    IF resume_skills = << >> \/ job_skills = << >> THEN 0
    ELSE LET resume_set == SkillSet(resume_skills)
             job_set    == SkillSet(job_skills)
             matched    == resume_set \cap job_set
         IN  IF job_set # {}
             THEN PyInt(PyMul(PyTrueDiv(Cardinality(matched), Cardinality(job_set)), 100))
             ELSE 0

\* ---------------------------------------------------------- Python values
PyNone == [type |-> "NoneType"]
PyStr(t) == [type |-> "str", val |-> t]
PyList(items) == [type |-> "list", val |-> items]
PyDict(d) == [type |-> "dict", val |-> d]
EmptyDict == PyDict([k \in {} |-> PyNone])

\* bool(v): None, "", [] and {} are false
Truthy(v) ==
    CASE v.type = "NoneType" -> FALSE
      [] v.type = "str"      -> v.val # << >>
      [] v.type = "list"     -> v.val # << >>
      [] v.type = "dict"     -> DOMAIN v.val # {}

\* list(S): every element once, in an order the string hash seed decides
ListOf(S) ==
    { l \in [1..Cardinality(S) -> S] : \A i, j \in DOMAIN l : i # j => l[i] # l[j] }

\* ------------------------------------------------------ the environment
\* What a collaborator did when it was called.  A model reply is one of
\*   raise        generate_content (or reading response.text) raised
\*   text         response.text, for a JSON prompt abstracted to
\*   unparseable  text that json.loads rejects, or
\*   json         text that json.loads turns into the Python value val
NotCalled == [kind |-> "not_called"]
Raise     == [kind |-> "raise"]
TextReply(t) == [kind |-> "text", text |-> t]
Unparseable  == [kind |-> "unparseable"]
JsonReply(v) == [kind |-> "json", val |-> v]

\* PyPDF2 either raises or yields the pages' text (possibly none)
PdfText == << 67, 86 >>
PdfOutcomes == { Raise, TextReply(<< >>), TextReply(PdfText) }

\* ---------------------------------------------------------- model gateway
\* Each gateway function takes the configured model (TRUE, or FALSE for
\* None) and the reply the model gives if it is asked.
extract_text_from_pdf(pdf) ==
    IF pdf.kind = "raise" THEN PyNone ELSE PyStr(pdf.text)

\* response.text returned without strip()
SkillsNotStripped(model, reply) ==
    IF ~model THEN PyNone
    ELSE IF reply.kind = "raise" THEN PyNone
    ELSE IF reply.text # << >> THEN PyStr(reply.text) ELSE PyNone

extract_skills_from_text(model, reply) ==
    IF ~model THEN PyNone
    ELSE IF reply.kind = "raise" THEN PyNone
    ELSE IF reply.text # << >> THEN PyStr(Strip(reply.text)) ELSE PyNone

recommend_jobs_from_skills(model, reply) ==
    IF ~model THEN PyNone
    ELSE IF reply.kind = "json" THEN reply.val
    ELSE PyNone

UnavailableLetter == "Cover letter generation is currently unavailable. Please check your API key."
FailedLetter == "Cover letter generation failed due to an API error."

\* without the "if not gemini_model" guard the call on None raises and the
\* except clause answers
CoverLetterUnguarded(model, reply) ==
    IF ~model \/ reply.kind = "raise" THEN FailedLetter
    ELSE IF reply.text # "" THEN reply.text ELSE FailedLetter

generate_cover_letter(model, reply) ==
    IF ~model THEN UnavailableLetter
    ELSE IF reply.kind = "raise" THEN FailedLetter
    ELSE IF reply.text # "" THEN reply.text ELSE FailedLetter

extract_name_skills_and_contact(model, reply) ==
    IF ~model THEN PyNone
    ELSE IF reply.kind = "json" THEN reply.val
    ELSE PyNone

\* the calls that reach generate_content
ModelCall(model, name) == IF model THEN << name >> ELSE << >>

\* the replies a gateway call can consume
Replies(model, S) == IF model THEN S ELSE { NotCalled }

\* ------------------------------------------------------------- charts
\* A rendered chart is represented by the data handed to matplotlib.
generate_pie_chart_base64(match_percentage) ==
    [chart |-> "pie", sizes |-> << match_percentage, 100 - match_percentage >>]

generate_bar_chart_base64(candidate_names, match_scores) ==
    [chart |-> "bar", names |-> candidate_names, scores |-> match_scores]

\* ------------------------------------------------------------ input sets
\* the fields a generated skills text is made of: "", " ", "a", " A ", "b"
Fields == { << >>, << SPACE >>, << 97 >>, << SPACE, 65, SPACE >>, << 98 >> }

RECURSIVE TextsOf(_)
TextsOf(n) ==
    IF n = 1 THEN Fields
    ELSE { t \o << COMMA >> \o f : t \in TextsOf(n - 1), f \in Fields }

Texts == UNION { TextsOf(n) : n \in 1..MaxTokens }

\* the i-th skill of a long list: a letter and a digit
Token(i) == << 97 + (i \div 10), 48 + (i % 10) >>

\* the first n skills joined by commas (three characters a skill)
LongList(n) ==
    [i \in 1..(3 * n - 1) |->
        IF i % 3 = 0 THEN COMMA ELSE Token((i + 2) \div 3)[i % 3]]

ScoreInputs ==
    (Texts \X Texts) \cup { << LongList(k), LongList(n) >> : k, n \in 0..MaxSkills }

SkillsReplies == { Raise } \cup { TextReply(t) : t \in Texts }

Jobs == [junior |-> << "Data Analyst" >>, mid |-> << "Data Engineer" >>, senior |-> << >>]
JobsReplies ==
    { Raise, TextReply(<< >>), Unparseable,
      JsonReply(PyNone), JsonReply(EmptyDict), JsonReply(PyDict(Jobs)) }

\* ----------------------------------------------------------------- state
VARIABLES
    gemini_model,   \* TRUE: configured at start-up; FALSE: None
    route,          \* what is being served: "none" between requests
    request,        \* the fields of the request
    env,            \* what the collaborators did during the request
    calls,          \* collaborator calls made, in order
    response,       \* the status and JSON body returned
    built,          \* /analyze-recruiter: candidates before the sort
    call_args,      \* arguments of a direct calculate_match_score call
    call_result     \* and its result

vars == << gemini_model, route, request, env, calls, response, built,
           call_args, call_result >>

NoRequest  == [none |-> TRUE]
NoEnv      == [none |-> TRUE]
NoResponse == [status |-> 0, body |-> [none |-> TRUE]]
NoArgs     == [none |-> TRUE]

Json(status, body) == [status |-> status, body |-> body]

Init ==
    /\ gemini_model \in BOOLEAN
    /\ route = "none"
    /\ request = NoRequest
    /\ env = NoEnv
    /\ calls = << >>
    /\ response = NoResponse
    /\ built = << >>
    /\ call_args = NoArgs
    /\ call_result = 0

\* a handler ran to its return statement
Handled(rt, rq, ev, cl, rsp, blt) ==
    /\ route' = rt
    /\ request' = rq
    /\ env' = ev
    /\ calls' = cl
    /\ response' = rsp
    /\ built' = blt
    /\ UNCHANGED << gemini_model, call_args, call_result >>

\* calculate_match_score applied to a pair of texts
Score ==
    /\ route = "none"
    /\ \E p \in ScoreInputs :
        /\ call_args' = [resume_skills |-> p[1], job_skills |-> p[2]]
        /\ call_result' = calculate_match_score(p[1], p[2])
    /\ route' = "calculate_match_score"
    /\ UNCHANGED << gemini_model, request, env, calls, response, built >>

\* ---------------------------------------------------------------- /analyze
\* the difference taken the wrong way round
AnalyzeMatchReversed(resume_skills_text, job_skills_text) ==
    LET resume_skills_set == SkillSet(resume_skills_text)
        job_skills_set    == SkillSet(job_skills_text)
        matched_skills    == job_skills_set \cap resume_skills_set
    IN  [missing |-> resume_skills_set \ job_skills_set,
         match_percentage |->
            IF job_skills_set # {}
            THEN PyInt(PyMul(PyTrueDiv(Cardinality(matched_skills),
                                       Cardinality(job_skills_set)), 100))
            ELSE 0]

\* lines 192-198: the sets, and the percentage computed inline
AnalyzeMatch(resume_skills_text, job_skills_text) ==
    LET resume_skills_set == SkillSet(resume_skills_text)
        job_skills_set    == SkillSet(job_skills_text)
        matched_skills    == job_skills_set \cap resume_skills_set
    IN  [missing |-> job_skills_set \ resume_skills_set,
         match_percentage |->
            IF job_skills_set # {}
            THEN PyInt(PyMul(PyTrueDiv(Cardinality(matched_skills),
                                       Cardinality(job_skills_set)), 100))
            ELSE 0]

AnalyzeEnv(pdf, r1, r2, r3) ==
    [pdf |-> pdf, resume_skills |-> r1, job_skills |-> r2, recommended_jobs |-> r3]

analyze ==
    /\ route = "none"
    /\ \E has_resume, has_job_desc \in BOOLEAN :
        LET rq == [resume |-> has_resume, job_desc |-> has_job_desc] IN
        IF ~has_resume \/ ~has_job_desc
        THEN Handled("analyze", rq, AnalyzeEnv(NotCalled, NotCalled, NotCalled, NotCalled),
                     << >>,
                     Json(400, [error |-> "No file or job description provided."]), << >>)
        ELSE \E pdf \in PdfOutcomes :
            LET pdf_text == extract_text_from_pdf(pdf) IN
            IF ~Truthy(pdf_text)
            THEN Handled("analyze", rq, AnalyzeEnv(pdf, NotCalled, NotCalled, NotCalled),
                         << "extract_text_from_pdf" >>,
                         Json(500, [error |-> "Failed to extract text from PDF."]), << >>)
            ELSE \E r1, r2 \in Replies(gemini_model, SkillsReplies) :
                LET resume_skills_text == extract_skills_from_text(gemini_model, r1)
                    job_skills_text    == extract_skills_from_text(gemini_model, r2)
                    cl2 == << "extract_text_from_pdf" >>
                           \o ModelCall(gemini_model, "extract_skills_from_text(pdf_text)")
                           \o ModelCall(gemini_model, "extract_skills_from_text(job_desc_text)")
                IN
                IF ~Truthy(resume_skills_text) \/ ~Truthy(job_skills_text)
                THEN Handled("analyze", rq, AnalyzeEnv(pdf, r1, r2, NotCalled), cl2,
                             Json(500, [error |-> "Failed to extract skills from text."]), << >>)
                ELSE LET m == AnalyzeMatch(resume_skills_text.val, job_skills_text.val) IN
                    \E missing_skills \in ListOf(m.missing),
                       r3 \in Replies(gemini_model, JobsReplies) :
                        LET recommended_jobs == recommend_jobs_from_skills(gemini_model, r3)
                            cl3 == cl2 \o ModelCall(gemini_model, "recommend_jobs_from_skills")
                        IN
                        IF ~Truthy(recommended_jobs)
                        THEN Handled("analyze", rq, AnalyzeEnv(pdf, r1, r2, r3), cl3,
                                     Json(500, [error |-> "Failed to get job recommendations from AI."]),
                                     << >>)
                        ELSE Handled("analyze", rq, AnalyzeEnv(pdf, r1, r2, r3), cl3,
                                     Json(200, [match_percentage |-> m.match_percentage,
                                                missing_skills   |-> missing_skills,
                                                recommended_jobs |-> recommended_jobs,
                                                resume_skills    |-> resume_skills_text.val,
                                                job_skills       |-> job_skills_text.val]),
                                     << >>)

\* ------------------------------------------------- /generate-cover-letter
\* data.get(key) of the JSON body: None when the key is absent
CoverFields == { PyNone, PyStr(<< >>), PyStr(<< 97, COMMA, 98 >>) }

LetterReplies == { Raise, TextReply(""), TextReply("Dear Hiring Manager") }

generate_cover_letter_route ==
    /\ route = "none"
    /\ \E resume_skills, job_desc \in CoverFields :
        LET rq == [resume_skills |-> resume_skills, job_desc |-> job_desc] IN
        IF ~Truthy(resume_skills) \/ ~Truthy(job_desc)
        THEN Handled("generate_cover_letter", rq, [cover_letter |-> NotCalled], << >>,
                     Json(400, [error |-> "Resume skills or job description not provided."]),
                     << >>)
        ELSE \E r \in Replies(gemini_model, LetterReplies) :
            Handled("generate_cover_letter", rq, [cover_letter |-> r],
                    ModelCall(gemini_model, "generate_cover_letter"),
                    Json(200, [cover_letter |-> generate_cover_letter(gemini_model, r)]),
                    << >>)

\* ------------------------------------------------------ /analyze-recruiter
DOT == 46

\* the i-th uploaded file is named "cv<i>.pdf"
FileName(i) == << 99, 118, 48 + i, DOT, 112, 100, 102 >>

Ann == PyStr(<< 65, 110, 110 >>)
Mail == PyStr(<< 97, 64, 98 >>)
Phone == PyStr(<< 53, 53, 53 >>)
UnknownCandidate == PyStr(<< 85, 110, 107, 110, 111, 119, 110 >>)
NA == PyStr(<< 78, 47, 65 >>)

\* the job skills the model may reply with: " , ", "a,b", " A ,b "
RecruiterJobReplies ==
    { Raise, TextReply(<< >>),
      TextReply(<< SPACE, COMMA, SPACE >>),
      TextReply(<< 97, COMMA, 98 >>),
      TextReply(<< SPACE, 65, SPACE, COMMA, 98, SPACE >>) }

\* the skills a resume may be given: "", "a", "b,A", "c"
RecruiterSkills == { << >>, << 97 >>, << 98, COMMA, 65 >>, << 99 >> }

Info(name, skills) ==
    PyDict([name |-> name, skills |-> skills, email |-> Mail, phone |-> Phone])

\* what json.loads may return for the candidate prompt
InfoValues ==
    { PyNone, EmptyDict,
      PyList(<< PyStr(<< 97 >>) >>),
      PyDict([email |-> Mail]),
      Info(Ann, PyNone),
      Info(Ann, PyList(<< PyStr(<< 97 >>), PyStr(<< 98 >>) >>)) }
    \cup { Info(n, PyStr(t)) : n \in { PyNone, Ann }, t \in RecruiterSkills }

InfoReplies == { Raise, TextReply(<< >>), Unparseable } \cup { JsonReply(v) : v \in InfoValues }

Unread == [pdf |-> NotCalled, info |-> NotCalled]

FileOutcomes ==
    { [pdf |-> Raise, info |-> NotCalled], [pdf |-> TextReply(<< >>), info |-> NotCalled] }
    \cup { [pdf |-> TextReply(PdfText), info |-> r] : r \in InfoReplies }

\* d.get(key, default)
DictGet(d, key, default) == IF key \in DOMAIN d.val THEN d.val[key] ELSE default

\* lines 243-269, the body of the loop for one file: the file is skipped,
\* or an AttributeError is raised, or a candidate is appended
ProcessFile(model, pdf_name, outcome, job_skills_text) ==
    LET pdf_text == extract_text_from_pdf(outcome.pdf) IN
    IF ~Truthy(pdf_text) THEN { [kind |-> "skip"] }
    ELSE LET extracted_info == extract_name_skills_and_contact(model, outcome.info) IN
        IF ~Truthy(extracted_info) THEN { [kind |-> "skip"] }
        ELSE IF extracted_info.type # "dict" THEN { [kind |-> "raise"] }
        ELSE LET resume_skills_text == DictGet(extracted_info, "skills", PyStr(<< >>)) IN
            IF resume_skills_text.type # "str" THEN { [kind |-> "raise"] }
            ELSE LET resume_skills_set == SkillSet(resume_skills_text.val)
                     job_skills_set    == SkillSet(job_skills_text)
                     match_percentage  ==
                         calculate_match_score(resume_skills_text.val, job_skills_text)
                 IN  { [kind |-> "append",
                        candidate |->
                          [name             |-> DictGet(extracted_info, "name", UnknownCandidate),
                           email            |-> DictGet(extracted_info, "email", NA),
                           phone            |-> DictGet(extracted_info, "phone", NA),
                           match_percentage |-> match_percentage,
                           missing_skills   |-> missing_skills,
                           pdf_name         |-> pdf_name,
                           pie_chart        |-> generate_pie_chart_base64(match_percentage)]]
                       : missing_skills \in ListOf(job_skills_set \ resume_skills_set) }

\* the collaborator calls made for one file
FileCalls(model, outcome) ==
    << "extract_text_from_pdf" >>
    \o (IF Truthy(extract_text_from_pdf(outcome.pdf))
        THEN ModelCall(model, "extract_name_skills_and_contact") ELSE << >>)

\* lines 242-269: the loop from file i on; every way it can end
RECURSIVE RecruiterLoop(_, _, _, _, _, _)
RecruiterLoop(model, files, i, job_skills_text, candidates, cl) ==
    IF i > Len(files)
    THEN { [candidates |-> candidates, calls |-> cl, raised |-> FALSE, read |-> Len(files)] }
    ELSE LET cl2 == cl \o FileCalls(model, files[i]) IN
        UNION { IF o.kind = "skip"
                THEN RecruiterLoop(model, files, i + 1, job_skills_text, candidates, cl2)
                ELSE IF o.kind = "raise"
                THEN { [candidates |-> candidates, calls |-> cl2, raised |-> TRUE, read |-> i] }
                ELSE RecruiterLoop(model, files, i + 1, job_skills_text,
                                   Append(candidates, o.candidate), cl2)
              : o \in ProcessFile(model, FileName(i), files[i], job_skills_text) }

\* c goes in front of the candidates that tie with it
InsertBeforeTies(sorted, c) ==
    LET k == Cardinality({ i \in 1..Len(sorted) :
                             sorted[i].match_percentage > c.match_percentage })
    IN  SubSeq(sorted, 1, k) \o << c >> \o SubSeq(sorted, k + 1, Len(sorted))

\* c goes behind every candidate whose percentage is at least its own
InsertByScore(sorted, c) ==
    LET k == Cardinality({ i \in 1..Len(sorted) :
                             sorted[i].match_percentage >= c.match_percentage })
    IN  SubSeq(sorted, 1, k) \o << c >> \o SubSeq(sorted, k + 1, Len(sorted))

\* candidates.sort(key=lambda x: x['match_percentage'], reverse=True)
RECURSIVE SortCandidates(_)
SortCandidates(cs) ==
    IF cs = << >> THEN << >>
    ELSE InsertByScore(SortCandidates(SubSeq(cs, 1, Len(cs) - 1)), cs[Len(cs)])

\* c["name"] or c["pdf_name"].split('.')[0]
BarName(c) == IF Truthy(c.name) THEN c.name ELSE PyStr(Split(c.pdf_name, DOT)[1])

\* an exception no handler catches: Flask answers 500 without a JSON body
Unhandled(exc) == [status |-> 500, body |-> [exception |-> exc]]

analyze_recruiter ==
    /\ route = "none"
    /\ \E n \in 0..MaxFiles, has_job_desc \in BOOLEAN :
        LET rq == [resumes |-> [i \in 1..n |-> FileName(i)], job_desc |-> has_job_desc] IN
        IF n = 0 \/ ~has_job_desc
        THEN Handled("analyze_recruiter", rq,
                     [job_skills |-> NotCalled, files |-> [i \in 1..n |-> Unread]], << >>,
                     Json(400, [error |-> "No resumes or job description provided."]), << >>)
        ELSE \E r \in Replies(gemini_model, RecruiterJobReplies) :
            LET job_skills_text == extract_skills_from_text(gemini_model, r)
                cl == ModelCall(gemini_model, "extract_skills_from_text(job_desc_text)")
            IN
            IF ~Truthy(job_skills_text)
            THEN Handled("analyze_recruiter", rq,
                         [job_skills |-> r, files |-> [i \in 1..n |-> Unread]], cl,
                         Json(500, [error |-> "Failed to extract skills from job description."]),
                         << >>)
            ELSE \E files \in [1..n -> FileOutcomes] :
                \E run \in RecruiterLoop(gemini_model, files, 1, job_skills_text.val, << >>, cl) :
                    LET ev == [job_skills |-> r,
                               files |-> [i \in 1..n |-> IF i <= run.read THEN files[i] ELSE Unread]]
                        candidates == SortCandidates(run.candidates)
                        names  == [i \in 1..Len(candidates) |-> BarName(candidates[i])]
                        scores == [i \in 1..Len(candidates) |-> candidates[i].match_percentage]
                    IN
                    IF run.raised
                    THEN Handled("analyze_recruiter", rq, ev, run.calls,
                                 Unhandled("AttributeError"), run.candidates)
                    ELSE Handled("analyze_recruiter", rq, ev, run.calls,
                                 Json(200, [candidates |-> candidates,
                                            bar_chart  |-> generate_bar_chart_base64(names, scores)]),
                                 run.candidates)

\* the response has been sent; nothing outlives the request
Finish ==
    /\ route # "none"
    /\ route' = "none"
    /\ request' = NoRequest
    /\ env' = NoEnv
    /\ calls' = << >>
    /\ response' = NoResponse
    /\ built' = << >>
    /\ call_args' = NoArgs
    /\ call_result' = 0
    /\ UNCHANGED gemini_model

Next == Score \/ analyze \/ generate_cover_letter_route \/ analyze_recruiter \/ Finish

Spec == Init /\ [][Next]_vars

\* =================================================================== claims
\* the normalized skill set of a text, as the specification words it:
\* split on commas, trim, lower-case, discard the empty tokens
Normalized(text) ==
    LET fields == Split(text, COMMA)
    IN  { Lower(Strip(fields[i])) : i \in 1..Len(fields) } \ { << >> }

\* a text of commas and whitespace only (or of nothing)
Blank(text) == \A i \in 1..Len(text) : text[i] = COMMA \/ IsSpace(text[i])

Floor100(k, n) == (100 * k) \div n

Called  == route = "calculate_match_score"
Analyzed == route = "analyze" /\ response.status = 200
Ranked  == route = "analyze_recruiter" /\ response.status = 200
              /\ "candidates" \in DOMAIN response.body

Candidates == response.body.candidates

\* the texts a candidate of the recruiter response was computed from
FileIndex(c) == CHOOSE i \in 1..Len(request.resumes) : request.resumes[i] = c.pdf_name
ResumeTextOf(c) == DictGet(env.files[FileIndex(c)].info.val, "skills", PyStr(<< >>)).val
JobTextOfRequest == Strip(env.job_skills.text)

Items(seq) == { seq[i] : i \in 1..Len(seq) }

\* C1: calculate_match_score returns an integer in 0..100 for every pair of
\* texts, and so is match_percentage in every successful /analyze response
\* and for every candidate of an /analyze-recruiter response.
C1_ScoreInRange ==
    /\ Called => call_result \in 0..100
    /\ Analyzed => response.body.match_percentage \in 0..100
    /\ Ranked => \A i \in 1..Len(Candidates) : Candidates[i].match_percentage \in 0..100

C1_Witness ==
    /\ Ranked
    /\ \E i, j \in 1..Len(Candidates) :
        Candidates[i].match_percentage = 100 /\ Candidates[j].match_percentage = 0

\* C2: when the normalized job set J is not empty the percentage is exactly
\* floor(100 * |R \cap J| / |J|), in calculate_match_score and in /analyze.
C2_ScoreIsFloor ==
    /\ Called =>
        LET R == Normalized(call_args.resume_skills)
            J == Normalized(call_args.job_skills)
        IN  J # {} => call_result = Floor100(Cardinality(R \cap J), Cardinality(J))
    /\ Analyzed =>
        LET R == Normalized(response.body.resume_skills)
            J == Normalized(response.body.job_skills)
        IN  J # {} => response.body.match_percentage
                        = Floor100(Cardinality(R \cap J), Cardinality(J))

\* C3: calculate_match_score returns 0 whenever either argument normalizes
\* to the empty set (empty, only commas, only whitespace).
C3_EmptySetScoresZero ==
    Called =>
        ((Blank(call_args.resume_skills) \/ Blank(call_args.job_skills))
            => call_result = 0)

C3_Witness ==
    /\ Called
    /\ call_args.resume_skills = << 97 >>
    /\ call_args.job_skills = << SPACE, COMMA >>
    /\ call_result = 0

\* rewritings of a text that leave its normalized skill set alone
Upper(s) == [i \in 1..Len(s) |-> IF s[i] \in 97..122 THEN s[i] - 32 ELSE s[i]]

RECURSIVE Join(_)
Join(fields) ==
    IF Len(fields) = 1 THEN fields[1]
    ELSE LET half == Len(fields) \div 2
         IN  Join(SubSeq(fields, 1, half)) \o << COMMA >>
             \o Join(SubSeq(fields, half + 1, Len(fields)))

Padded(text) ==
    LET f == Split(text, COMMA)
    IN  Join([i \in 1..Len(f) |-> << SPACE >> \o f[i] \o << SPACE, SPACE >>])

Trimmed(text) ==
    LET f == Split(text, COMMA) IN Join([i \in 1..Len(f) |-> Strip(f[i])])

Reordered(text) ==
    LET f == Split(text, COMMA) IN Join([i \in 1..Len(f) |-> f[Len(f) + 1 - i]])

Rotated(text) ==
    LET f == Split(text, COMMA) IN Join(Tail(f) \o << Head(f) >>)

Repeated(text) == text \o << COMMA >> \o text

Variants(text) ==
    { Upper(text), Lower(text), Padded(text), Trimmed(text), Reordered(text),
      Rotated(text), Repeated(text),
      << COMMA >> \o text, text \o << COMMA >>, << COMMA, SPACE, COMMA >> \o text }

\* C4: changing letter case, whitespace around tokens, repetition, order or
\* empty tokens in either argument leaves calculate_match_score unchanged.
C4_ScoreInvariant ==
    Called =>
        /\ \A v \in Variants(call_args.resume_skills) :
              calculate_match_score(v, call_args.job_skills) = call_result
        /\ \A v \in Variants(call_args.job_skills) :
              calculate_match_score(call_args.resume_skills, v) = call_result

\* " A ,b" against "a,b" is a full match
C4_Witness ==
    /\ Called
    /\ call_args.resume_skills = << SPACE, 65, SPACE, COMMA, 98 >>
    /\ call_args.job_skills = << 97, COMMA, 98 >>
    /\ call_result = 100

\* missing lists every token of the job text that the resume text lacks,
\* once, and nothing else
ExactlyMissing(missing, resume_text, job_text) ==
    /\ Items(missing) = Normalized(job_text) \ Normalized(resume_text)
    /\ \A i, j \in 1..Len(missing) : i # j => missing[i] # missing[j]

\* C5: missing_skills is exactly the normalized job set minus the
\* normalized resume set, each token once, in /analyze and per candidate.
C5_MissingIsDifference ==
    /\ Analyzed => ExactlyMissing(response.body.missing_skills,
                                  response.body.resume_skills, response.body.job_skills)
    /\ Ranked => \A i \in 1..Len(Candidates) :
          ExactlyMissing(Candidates[i].missing_skills,
                         ResumeTextOf(Candidates[i]), JobTextOfRequest)

\* job "a,b" with resume "a" gives exactly <<"b">>
C5_Witness ==
    /\ Analyzed
    /\ response.body.job_skills = << 97, COMMA, 98 >>
    /\ response.body.resume_skills = << 97 >>
    /\ response.body.missing_skills = << << 98 >> >>

PositionBuilt(c) == CHOOSE k \in 1..Len(built) : built[k] = c

\* C6: the candidates of /analyze-recruiter are in non-increasing order of
\* match_percentage, equal percentages keep upload order, the list is a
\* permutation of the candidates built, and the bar chart follows it.
C6_RankedStable ==
    Ranked =>
        /\ Len(Candidates) = Len(built)
        /\ Items(Candidates) = Items(built)
        /\ \A i, j \in 1..Len(Candidates) : i < j =>
              /\ Candidates[i].match_percentage >= Candidates[j].match_percentage
              /\ Candidates[i].match_percentage = Candidates[j].match_percentage
                    => PositionBuilt(Candidates[i]) < PositionBuilt(Candidates[j])
        /\ response.body.bar_chart.scores
              = [i \in 1..Len(Candidates) |-> Candidates[i].match_percentage]
        /\ response.body.bar_chart.names
              = [i \in 1..Len(Candidates) |-> BarName(Candidates[i])]

\* two candidates tie, and the one uploaded first stays first
C6_Witness ==
    /\ Ranked
    /\ Len(Candidates) = 2
    /\ Candidates[1].match_percentage = Candidates[2].match_percentage
    /\ Candidates[1].match_percentage = 50
    /\ Candidates[1].pdf_name = FileName(1)
    /\ Candidates[2].pdf_name = FileName(2)

\* the job skills of the recruiter request were extracted
JobSkillsExtracted ==
    /\ route = "analyze_recruiter"
    /\ env.job_skills.kind = "text"
    /\ Strip(env.job_skills.text) # << >>

\* a file that fails as the claim lists: no PDF text, or a model call that
\* errors, or an empty, unparseable or wrongly shaped reply
FileFails(f) ==
    \/ f.pdf.kind # "text"
    \/ f.pdf.text = << >>
    \/ f.info.kind # "json"
    \/ f.info.val.type # "dict"
    \/ DOMAIN f.info.val.val = {}
    \/ ("skills" \in DOMAIN f.info.val.val /\ f.info.val.val.skills.type # "str")

\* C7: once the job skills are extracted, a failing file is omitted and
\* never fails the request: every other file yields one candidate, in
\* upload order, and the answer is 200 with candidates and bar_chart.
C7_FailedFileSkipped ==
    JobSkillsExtracted =>
        /\ response.status = 200
        /\ DOMAIN response.body = { "candidates", "bar_chart" }
        /\ Len(built) = Cardinality({ i \in 1..Len(env.files) : ~FileFails(env.files[i]) })
        /\ \A i \in 1..Len(env.files) :
              ~FileFails(env.files[i]) => \E k \in 1..Len(built) : built[k].pdf_name = FileName(i)
        /\ \A k, l \in 1..Len(built) :
              k < l => FileIndex(built[k]) < FileIndex(built[l])

\* ---- /analyze outcomes
Count(seq, x) == Cardinality({ i \in 1..Len(seq) : seq[i] = x })

FieldsMissing == ~request.resume \/ ~request.job_desc

NoPdfText == env.pdf.kind # "text" \/ env.pdf.text = << >>

\* the extraction gave no skills text: no model, an error, or a response
\* that is empty or of whitespace only
SkillExtractionFails(r) ==
    \/ r.kind \in { "not_called", "raise" }
    \/ (r.kind = "text" /\ \A i \in 1..Len(r.text) : IsSpace(r.text[i]))

\* the recommendation call was made and raised, or its text is not JSON,
\* or is JSON for null
RecommendationFails(r) ==
    \/ r.kind \in { "raise", "text", "unparseable" }
    \/ (r.kind = "json" /\ r.val = PyNone)

\* the response is JSON for an empty object
EmptyJson(r) == r.kind = "json" /\ r.val = EmptyDict

AnalyzeModelCalls ==
    { "extract_skills_from_text(pdf_text)", "extract_skills_from_text(job_desc_text)",
      "recommend_jobs_from_skills" }

\* what is common to the claim and to its amendment
AnalyzeOutcomeShape ==
    /\ response.status \in { 400, 500, 200 }
    /\ response.status = 400 <=> FieldsMissing
    /\ response.status = 400 => calls = << >>
    /\ response.status \in { 400, 500 } => DOMAIN response.body = { "error" }
    /\ response.status = 200 =>
          DOMAIN response.body = { "match_percentage", "missing_skills",
                                   "recommended_jobs", "resume_skills", "job_skills" }
    /\ Count(calls, "recommend_jobs_from_skills") = 1 =>
          /\ ~SkillExtractionFails(env.resume_skills)
          /\ ~SkillExtractionFails(env.job_skills)
          /\ calls[Len(calls)] = "recommend_jobs_from_skills"
    /\ \A c \in AnalyzeModelCalls : Count(calls, c) <= 1

NoModelCall == \A i \in 1..Len(calls) : calls[i] = "extract_text_from_pdf"

ErrorOnly(status) == response.status = status /\ DOMAIN response.body = { "error" }

\* what is common to the claim and to its amendment
DegradesGracefully ==
    /\ NoModelCall
    /\ "exception" \notin DOMAIN response.body
    /\ (route = "analyze" /\ env.pdf.kind = "text" /\ env.pdf.text # << >>)
          => ErrorOnly(500)
    /\ (route = "generate_cover_letter"
          /\ Truthy(request.resume_skills) /\ Truthy(request.job_desc))
          => response = Json(200, [cover_letter |-> UnavailableLetter])

C10_FieldsAgree ==
    /\ Analyzed =>
        /\ Normalized(response.body.job_skills) # {} =>
              (response.body.match_percentage = 100
                  <=> Len(response.body.missing_skills) = 0)
        /\ response.body.match_percentage
              = calculate_match_score(response.body.resume_skills, response.body.job_skills)
    /\ Ranked => \A i \in 1..Len(Candidates) :
        /\ Normalized(JobTextOfRequest) # {} =>
              (Candidates[i].match_percentage = 100
                  <=> Len(Candidates[i].missing_skills) = 0)
        /\ Candidates[i].match_percentage
              = AnalyzeMatch(ResumeTextOf(Candidates[i]), JobTextOfRequest).match_percentage
    /\ Called =>
        call_result = AnalyzeMatch(call_args.resume_skills,
                                   call_args.job_skills).match_percentage

\* one candidate covers the job and has nothing missing, another does not
C10_Witness ==
    /\ Ranked
    /\ Normalized(JobTextOfRequest) # {}
    /\ Len(Candidates) = 2
    /\ Candidates[1].match_percentage = 100 /\ Len(Candidates[1].missing_skills) = 0
    /\ Candidates[2].match_percentage = 50 /\ Len(Candidates[2].missing_skills) = 1
====
